---- MODULE Spec2Model ----
(***************************************************************************)
(* Risk-record ledger and intervention lifecycle of the HSU Early Warning  *)
(* System: DatabaseManager (database/db_manager.py), InterventionManager   *)
(* (utils/intervention_manager.py) and the page handlers that write the    *)
(* interventions table directly.                                           *)
(*                                                                         *)
(* Storage is SQLite through DatabaseManager.get_connection: every `with   *)
(* get_connection()` block is one transaction, committed when the block    *)
(* ends and rolled back when it raises.  Readers see committed data only.  *)
(* A block with a single statement is one atomic action here; the one      *)
(* block with two statements (create_risk_score) is modelled statement by  *)
(* statement under SQLite's single-writer lock.                            *)
(***************************************************************************)
EXTENDS Integers, Sequences, FiniteSets, TLC

VARIABLES
    risk_scores,    \* committed rows of table risk_scores, index = risk_score_id
    rs_pc,          \* per caller: position inside create_risk_score
    rs_args,        \* per caller: (student_id, term_id) of the running call
    rs_tx,          \* per caller: the uncommitted table image of its transaction
    rs_conc,        \* per caller: the running call overlaps another call for the same pair
    racing,         \* risk_score_ids committed by such overlapping calls
    db_lock,        \* SQLite write lock: 0 = free, else the caller holding it
    now,            \* CURRENT_TIMESTAMP, in whole seconds
    interventions,  \* rows of table interventions, index = intervention_id
    notifications,  \* rows of table notifications
    audit_logs,     \* rows of table audit_logs
    pc,             \* per caller: position inside the running intervention call
    call,           \* per caller: arguments, locals and outcome of its last call
    recorded,       \* per intervention: the note texts recorded on it so far
    ncalls,         \* calls entered so far
    email_queue,    \* committed rows of table email_queue, index = email_id
    mq_pc,          \* position of the worker inside process_email_queue
    mq_batch,       \* the email_ids it fetched and has not handled yet
    mq_tx,          \* the rows its open transaction has updated, by email_id
    attempts,       \* per message: the send attempts made so far (counted up to MaxAttempts)
    deliveries,     \* per email_id: send_email was called for the row, and how often it succeeded
    test_results    \* WarningSystemTester.test_results: one entry per profile tested

riskVars == <<risk_scores, rs_pc, rs_args, rs_tx, rs_conc, racing, db_lock, now>>

intVars == <<interventions, notifications, audit_logs, pc, call, recorded, ncalls>>

mailVars == <<email_queue, mq_pc, mq_batch, mq_tx, attempts, deliveries>>

testVars == <<test_results>>

vars == <<riskVars, intVars, mailVars, testVars>>

NULL == "NULL"

\* ---- bounds -------------------------------------------------------------
MaxRows == 3            \* rows of risk_scores explored
MaxTime == 1            \* seconds the clock may advance

StudentIds == {1, 2}    \* student_id values present in table students
TermIds == {1, 2}       \* term_id values present in table terms
Callers == {1, 2}       \* concurrent callers (separate connections)

NoArgs == <<>>          \* a caller that is not inside a call holds no arguments

\* ---- helpers ------------------------------------------------------------
Range(f) == {f[i] : i \in DOMAIN f}

None == <<>>                    \* SQL NULL / Python None of an optional value
Some(v) == <<v>>

\* ---- dates as text -----------------------------------------------------
\* the clock counts the times of day; a day has these
TimesOfDay == {0, 1}

\* datetime.now().strftime('%Y-%m-%d %H:%M:%S'): the text 'date time',
\* here <<day, time of day>>
strftime(t) == <<t \div Cardinality(TimesOfDay), t % Cardinality(TimesOfDay)>>

\* SQLite date('now'): the text 'YYYY-MM-DD' alone, here <<day>>
sql_date(t) == <<t \div Cardinality(TimesOfDay)>>

\* SQLite date('now', '+N days')
sql_date_plus(t, days) == <<(t \div Cardinality(TimesOfDay)) + days>>

\* a < b of two texts (SQLite compares TEXT values byte by byte, memcmp, a
\* proper prefix being the smaller one)
RECURSIVE TextLess(_, _)
TextLess(a, b) ==
    IF b = <<>> THEN FALSE
    ELSE IF a = <<>> THEN TRUE
    ELSE IF Head(a) # Head(b) THEN Head(a) < Head(b)
    ELSE TextLess(Tail(a), Tail(b))

\* ---- risk_scores --------------------------------------------------------

\* UPDATE risk_scores SET is_current = 0 WHERE student_id = ? AND term_id = ?
MarkNotCurrentNoOp(rows, s, t) == rows

\* an UPDATE without the term: WHERE student_id = ?
MarkStudentNotCurrent(rows, s, t) ==
    [i \in DOMAIN rows |->
        IF rows[i].student_id = s THEN [rows[i] EXCEPT !.is_current = 0] ELSE rows[i]]

MarkNotCurrent(rows, s, t) ==
    [i \in DOMAIN rows |->
        IF rows[i].student_id = s /\ rows[i].term_id = t
        THEN [rows[i] EXCEPT !.is_current = 0]
        ELSE rows[i]]

\* INSERT INTO risk_scores (..., score_calculation_date, ..., is_current)
\* VALUES (?, ?, CURRENT_TIMESTAMP, ..., 1)
NewRiskRow(s, t, ts) ==
    [student_id |-> s, term_id |-> t, score_calculation_date |-> ts, is_current |-> 1]

\* scores are kept in hundredths: 82 is 0.82
\* the four sub-factor arguments (academic, engagement, financial, wellness):
\* kwargs.get(...) of each, None when the caller leaves it out
NoFactors == <<None, None, None, None>>

\* the score columns of the INSERT, as passed by the caller
ScoreColumns(score, factors, category) ==
    [overall_risk_score |-> score,
     academic_risk_factor |-> factors[1], engagement_risk_factor |-> factors[2],
     financial_risk_factor |-> factors[3], wellness_risk_factor |-> factors[4],
     risk_category |-> category]

\* CHECK constraints of table risk_scores: every score is NULL or in [0, 1]
InUnit(v) == IF v = None THEN TRUE ELSE v[1] >= 0 /\ v[1] <= 100

ScoresInRange(score, factors) ==
    /\ InUnit(Some(score))
    /\ \A k \in DOMAIN factors : InUnit(factors[k])

\* FOREIGN KEY constraints of table risk_scores (PRAGMA foreign_keys = ON)
ForeignKeysHold(s, t) == s \in StudentIds /\ t \in TermIds

\* A caller enters create_risk_score(student_id, term_id, overall_risk_score,
\* **kwargs) and opens its connection.  It overlaps every call that has been
\* entered and not returned.
RS_CallWith(c, s, t, score, factors, category) ==
    LET others == {d \in Callers \ {c} :
                      /\ rs_pc[d] # "idle"
                      /\ rs_args[d][1] = s
                      /\ rs_args[d][2] = t} IN
    /\ rs_pc[c] = "idle"
    /\ Len(risk_scores) + Cardinality({d \in Callers : rs_pc[d] # "idle"}) < MaxRows
    /\ rs_args' = [rs_args EXCEPT ![c] = <<s, t, score, factors, category>>]
    /\ rs_pc' = [rs_pc EXCEPT ![c] = "called"]
    /\ rs_conc' = [d \in Callers |-> IF d = c THEN others # {}
                                     ELSE rs_conc[d] \/ d \in others]
    /\ UNCHANGED <<risk_scores, rs_tx, racing, db_lock, now>>
    /\ UNCHANGED <<intVars, mailVars, testVars>>

\* create_risk_score(s, t, 0.82, risk_category='Critical')
RS_Call(c, s, t) == RS_CallWith(c, s, t, 82, NoFactors, "Critical")

\* create_risk_score, first statement.  The UPDATE opens the transaction and
\* takes the database write lock; a second writer waits until it is released.
RS_Update(c) ==
    /\ rs_pc[c] = "called"
    /\ db_lock = 0
    /\ db_lock' = c
    /\ rs_tx' = [rs_tx EXCEPT ![c] = MarkNotCurrent(risk_scores, rs_args[c][1], rs_args[c][2])]
    /\ rs_pc' = [rs_pc EXCEPT ![c] = "updated"]
    /\ UNCHANGED <<risk_scores, rs_args, rs_conc, racing, now>>
    /\ UNCHANGED <<intVars, mailVars, testVars>>

\* the INSERT executed although a constraint of the table fails
RS_InsertUnchecked(c) ==
    /\ rs_pc[c] = "updated"
    /\ rs_tx' = [rs_tx EXCEPT ![c] =
                    Append(rs_tx[c], NewRiskRow(rs_args[c][1], rs_args[c][2], now)
                                        @@ ScoreColumns(rs_args[c][3], rs_args[c][4],
                                                        rs_args[c][5]))]
    /\ rs_pc' = [rs_pc EXCEPT ![c] = "inserted"]
    /\ UNCHANGED <<risk_scores, rs_args, rs_conc, racing, db_lock, now>>
    /\ UNCHANGED <<intVars, mailVars, testVars>>

\* create_risk_score, second statement: the INSERT succeeds (the constraints
\* of the table hold for the new row).
RS_Insert(c) ==
    /\ rs_pc[c] = "updated"
    /\ ForeignKeysHold(rs_args[c][1], rs_args[c][2])
    /\ ScoresInRange(rs_args[c][3], rs_args[c][4])
    /\ rs_tx' = [rs_tx EXCEPT ![c] =
                    Append(rs_tx[c], NewRiskRow(rs_args[c][1], rs_args[c][2], now)
                                        @@ ScoreColumns(rs_args[c][3], rs_args[c][4],
                                                        rs_args[c][5]))]
    /\ rs_pc' = [rs_pc EXCEPT ![c] = "inserted"]
    /\ UNCHANGED <<risk_scores, rs_args, rs_conc, racing, db_lock, now>>
    /\ UNCHANGED <<intVars, mailVars, testVars>>

\* the exception handler commits what the transaction has done so far
RS_InsertFailsNoRollback(c) ==
    /\ rs_pc[c] = "updated"
    /\ risk_scores' = rs_tx[c]
    /\ rs_tx' = [rs_tx EXCEPT ![c] = <<>>]
    /\ rs_pc' = [rs_pc EXCEPT ![c] = "raised"]
    /\ db_lock' = 0
    /\ UNCHANGED <<rs_args, rs_conc, racing, now>>
    /\ UNCHANGED <<intVars, mailVars, testVars>>

\* create_risk_score, second statement raises (constraint or storage error):
\* get_connection rolls the transaction back, closes the connection ...
RS_InsertFails(c) ==
    /\ rs_pc[c] = "updated"
    /\ rs_tx' = [rs_tx EXCEPT ![c] = <<>>]
    /\ rs_pc' = [rs_pc EXCEPT ![c] = "raised"]
    /\ db_lock' = 0
    /\ UNCHANGED <<risk_scores, rs_args, rs_conc, racing, now>>
    /\ UNCHANGED <<intVars, mailVars, testVars>>

\* ... and re-raises: the exception leaves create_risk_score
RS_Raise(c) ==
    /\ rs_pc[c] = "raised"
    /\ rs_pc' = [rs_pc EXCEPT ![c] = "idle"]
    /\ rs_args' = [rs_args EXCEPT ![c] = NoArgs]
    /\ rs_conc' = [rs_conc EXCEPT ![c] = FALSE]
    /\ UNCHANGED <<risk_scores, rs_tx, racing, db_lock, now>>
    /\ UNCHANGED <<intVars, mailVars, testVars>>

\* leaving the with-block: conn.commit(); lastrowid is returned
RS_Commit(c) ==
    /\ rs_pc[c] = "inserted"
    /\ risk_scores' = rs_tx[c]
    /\ racing' = IF rs_conc[c] THEN racing \cup {Len(rs_tx[c])} ELSE racing
    /\ rs_tx' = [rs_tx EXCEPT ![c] = <<>>]
    /\ rs_pc' = [rs_pc EXCEPT ![c] = "idle"]
    /\ rs_args' = [rs_args EXCEPT ![c] = NoArgs]
    /\ rs_conc' = [rs_conc EXCEPT ![c] = FALSE]
    /\ db_lock' = 0
    /\ UNCHANGED now
    /\ UNCHANGED <<intVars, mailVars, testVars>>

\* SELECT * FROM risk_scores WHERE student_id = ?
\* ORDER BY score_calculation_date DESC
\* SQL fixes the order of rows with different dates only; rows with the same
\* score_calculation_date (same second) come in an order the engine chooses.
IsHistoryOf(h, s) ==
    LET ids == {i \in DOMAIN risk_scores : risk_scores[i].student_id = s} IN
    /\ Len(h) = Cardinality(ids)
    /\ Range(h) = ids
    /\ \A i, j \in DOMAIN h :
          i < j => risk_scores[h[i]].score_calculation_date
                      >= risk_scores[h[j]].score_calculation_date

\* get_risk_score_history(s): the results the query can return in this state
get_risk_score_history(s) ==
    LET ids == {i \in DOMAIN risk_scores : risk_scores[i].student_id = s} IN
    {h \in [1..Cardinality(ids) -> ids] : IsHistoryOf(h, s)}

\* the current rows of a student, in every term
CurrentRows(s) ==
    {i \in DOMAIN risk_scores :
        risk_scores[i].student_id = s /\ risk_scores[i].is_current = 1}

\* ORDER BY score_calculation_date ASC LIMIT 1
get_current_risk_score_oldest(s) ==
    IF CurrentRows(s) = {} THEN {None}
    ELSE {Some(i) : i \in {j \in CurrentRows(s) :
             \A k \in CurrentRows(s) :
                 risk_scores[j].score_calculation_date
                    <= risk_scores[k].score_calculation_date}}

\* get_current_risk_score(s):
\* SELECT * FROM risk_scores WHERE student_id = ? AND is_current = 1
\* ORDER BY score_calculation_date DESC LIMIT 1; fetchone()
\* The results the query can return in this state: the first row of an
\* ordering the engine may produce, or None when no row matches.
get_current_risk_score(s) ==
    IF CurrentRows(s) = {} THEN {None}
    ELSE {Some(i) : i \in {j \in CurrentRows(s) :
             \A k \in CurrentRows(s) :
                 risk_scores[j].score_calculation_date
                    >= risk_scores[k].score_calculation_date}}

\* one second passes: CURRENT_TIMESTAMP has a resolution of one second, so
\* statements executed before the next tick read the same value
Tick ==
    /\ now < MaxTime
    /\ now' = now + 1
    /\ UNCHANGED <<risk_scores, rs_pc, rs_args, rs_tx, rs_conc, racing, db_lock>>
    /\ UNCHANGED <<intVars, mailVars, testVars>>

RiskInit ==
    /\ risk_scores = <<>>
    /\ rs_pc = [c \in Callers |-> "idle"]
    /\ rs_args = [c \in Callers |-> NoArgs]
    /\ rs_tx = [c \in Callers |-> <<>>]
    /\ rs_conc = [c \in Callers |-> FALSE]
    /\ racing = {}
    /\ db_lock = 0
    /\ now = 0

RiskNext ==
    \/ \E c \in Callers, s \in StudentIds, t \in TermIds : RS_Call(c, s, t)
    \/ \E c \in Callers : RS_Update(c)
    \/ \E c \in Callers : RS_Insert(c)
    \/ \E c \in Callers : RS_InsertFails(c)
    \/ \E c \in Callers : RS_Raise(c)
    \/ \E c \in Callers : RS_Commit(c)
    \/ Tick

\* ---- interventions, notifications, audit_logs ---------------------------

MaxInterventions == 2           \* rows of interventions explored
MaxCalls == 3                   \* calls entered in one behaviour

InterventionIds == 1..MaxInterventions

\* students.user_id: student 1 has a user account (user 10), student 2 has none
StudentUser(s) == IF s = 1 THEN 10 ELSE 0

AppointmentTitle == "Appointment Request"
ManagerTitle == "Academic Check-In"

Statuses == {"Pending", "Scheduled", "In Progress", "Completed", "Cancelled", "No-Show"}
\* the values update_status documents for new_status
NewStatuses == Statuses \ {"Pending"}

CreateNotes == {None, <<"n1">>}
StatusNotes == {None, <<"n2">>}
FollowUpNotes == {None, <<"n3">>}
Outcomes == {NULL, "Improved attendance"}
Ratings == {None, Some(4), Some(9)}
FollowUpDates == {Some(1)}

AdvisorIds == {1, 2}            \* advisor_id values present in table advisors

Priorities == {"Critical", "High", "Medium", "Low"}
RiskCategories == {"Critical", "High", "Medium", "Low"}

\* table intervention_types, index = intervention_type_id: the first two rows
\* create_intervention_types seeds
intervention_types ==
    <<[type_name |-> "Academic Check-In",
       description |-> "Regular meeting to discuss academic progress and challenges",
       default_priority |-> "Medium"],
      [type_name |-> "Tutoring Referral",
       description |-> "Connect student with tutoring services",
       default_priority |-> "High"]>>

\* the ids a caller may pass: those of the table and one that has no row
TemplateIds == DOMAIN intervention_types \cup {Len(intervention_types) + 1}

\* a Python parameter with a default: None when the caller leaves it out
Given(arg, default) == IF arg = None THEN default ELSE arg[1]

NoCall ==
    [op |-> "none", id |-> 0, student |-> 0, to |-> NULL, notes |-> None,
     outcome |-> NULL, rating |-> None, date |-> None, upd_notes |-> None,
     seen |-> NULL, from |-> NULL, changed |-> {},
     audits |-> 0, result |-> "none",
     type_id |-> None, priority |-> None, description |-> None,
     advisor |-> 0, todo |-> <<>>, ids |-> <<>>, rows |-> {}]

Exists(id) == id \in DOMAIN interventions

StatusOf(id) == IF Exists(id) THEN interventions[id].status ELSE NULL

\* INSERT INTO interventions (...) VALUES (...): columns not listed stay NULL.
\* These are the columns the lifecycle reads or writes; PlanColumns adds the
\* rest of what is kept.  location, method, student_response, duration_minutes
\* and the created_at / updated_at stamps are left out.
NewIntervention(student, title, status, notes) ==
    [student_id |-> student, title |-> title, status |-> status, notes |-> notes,
     completed_date |-> None, outcome_assessment |-> NULL, success_rating |-> None,
     follow_up_required |-> 0, follow_up_date |-> None]

\* the columns of the INSERT that say what is planned, by whom and for when
PlanColumns(advisor, description, priority, scheduled_date, type_id) ==
    [advisor_id |-> advisor, description |-> description, priority |-> priority,
     scheduled_date |-> scheduled_date, intervention_type_id |-> type_id]

\* db.update_intervention(id, **kwargs): UPDATE interventions SET k = v, ...
\* WHERE intervention_id = ?  -- no row matched is not an error
update_intervention(id, row) ==
    IF Exists(id) THEN [interventions EXCEPT ![id] = row] ELSE interventions

\* db.log_action(user, action, 'interventions', entity_id)
log_action(action, id) == Append(audit_logs, [action |-> action, entity_id |-> id])

\* table notifications: the columns an INSERT leaves out take their defaults,
\* is_read 0 (unread) and read_at NULL
NotificationDefaults == [is_read |-> 0, read_at |-> None]

\* db.create_notification(user_id, type, ..., related_entity_id)
create_notification(user, type, id) ==
    Append(notifications, [user_id |-> user, notification_type |-> type,
                           related_entity_type |-> "interventions",
                           related_entity_id |-> id] @@ NotificationDefaults)

\* a caller enters a call: what it keeps, and the status the row has then
Enter(c, rec) ==
    /\ pc[c] = "idle"
    /\ ncalls < MaxCalls
    /\ ncalls' = ncalls + 1
    /\ call' = [call EXCEPT ![c] = [rec EXCEPT !.seen = StatusOf(rec.id),
                                               !.result = "running"]]

\* the call returns (or raises) with the given outcome; its locals are gone
Return(c, rec, outcome) ==
    /\ call' = [call EXCEPT ![c] = [rec EXCEPT !.result = outcome, !.student = 0,
                                               !.notes = None, !.upd_notes = None,
                                               !.date = None]]
    /\ pc' = [pc EXCEPT ![c] = "idle"]

Columns == {"student_id", "title", "status", "notes", "completed_date",
            "outcome_assessment", "success_rating", "follow_up_required",
            "follow_up_date"}

\* bookkeeping of the call's UPDATE: the status it found in the row (NULL: no
\* such row) and the columns whose value it changed
Wrote(rec, id, rows) ==
    [rec EXCEPT !.from = StatusOf(id),
                !.changed = IF Exists(id)
                            THEN {f \in Columns : rows[id][f] # interventions[id][f]}
                            ELSE {}]

\* -- InterventionManager.create_intervention --------------------------------
\* the arguments of create_intervention(student_id, advisor_id, title,
\* description, intervention_type_id=None, priority='Medium',
\* scheduled_date=None, ..., notes=None)
CreateArgs(student, advisor, title, description, type_id, priority, scheduled_date, notes) ==
    [student |-> student, advisor |-> advisor, title |-> title,
     description |-> description, type_id |-> type_id, priority |-> priority,
     scheduled_date |-> scheduled_date, notes |-> notes]

\* db.create_intervention(..., status='Scheduled', ...): the row of the INSERT
ScheduledRow(a) ==
    NewIntervention(a.student, a.title, "Scheduled", a.notes)
        @@ PlanColumns(a.advisor, a.description, Given(a.priority, "Medium"),
                       a.scheduled_date, a.type_id)

\* create_intervention entered with arguments a by the call rec (the call of
\* the caller: create_intervention itself, or create_from_template): the
\* INSERT, in its own transaction
CI_Create(c, rec, a) ==
    LET id == Len(interventions) + 1 IN
    /\ Len(interventions) < MaxInterventions
    /\ Enter(c, [rec EXCEPT !.student = a.student, !.notes = a.notes, !.id = id])
    /\ interventions' = Append(interventions, ScheduledRow(a))
    /\ recorded' = [recorded EXCEPT ![id] = Range(a.notes)]
    /\ pc' = [pc EXCEPT ![c] = "ci_notify"]
    /\ UNCHANGED <<notifications, audit_logs>>
    /\ UNCHANGED <<riskVars, mailVars, testVars>>

\* create_intervention(student, 1, title, description, notes=notes): no
\* template, priority and scheduled_date left out
CI_Insert(c, student, notes) ==
    CI_Create(c, [NoCall EXCEPT !.op = "create_intervention"],
              CreateArgs(student, 1, ManagerTitle, "Check-in", None, None, None, notes))

\* create_notification addressed to the advisor instead of the student's user
CI_NotifyAdvisor(c) ==
    /\ pc[c] = "ci_notify"
    /\ notifications' =
          create_notification(interventions[call[c].id].advisor_id,
                              "intervention_scheduled", call[c].id)
    /\ pc' = [pc EXCEPT ![c] = "ci_log"]
    /\ UNCHANGED <<interventions, audit_logs, call, recorded, ncalls>>
    /\ UNCHANGED <<riskVars, mailVars, testVars>>

\* get_student_by_id, then create_notification when the student has a user_id
CI_Notify(c) ==
    /\ pc[c] = "ci_notify"
    /\ notifications' =
          IF StudentUser(call[c].student) # 0
          THEN create_notification(StudentUser(call[c].student),
                                   "intervention_scheduled", call[c].id)
          ELSE notifications
    /\ pc' = [pc EXCEPT ![c] = "ci_log"]
    /\ UNCHANGED <<interventions, audit_logs, call, recorded, ncalls>>
    /\ UNCHANGED <<riskVars, mailVars, testVars>>

\* log_action(advisor_id, 'INTERVENTION_CREATED', 'interventions', id); return id
\* (called by create_bulk_interventions, the id is appended and the loop goes on)
CI_Log(c) ==
    /\ pc[c] = "ci_log"
    /\ audit_logs' = log_action("INTERVENTION_CREATED", call[c].id)
    /\ IF call[c].op = "create_bulk_interventions"
       THEN /\ call' = [call EXCEPT ![c] = [call[c] EXCEPT !.audits = @ + 1,
                                                           !.ids = Append(@, call[c].id)]]
            /\ pc' = [pc EXCEPT ![c] = "cb_loop"]
       ELSE Return(c, [call[c] EXCEPT !.audits = @ + 1], "ok")
    /\ UNCHANGED <<interventions, notifications, recorded, ncalls>>
    /\ UNCHANGED <<riskVars, mailVars, testVars>>

\* create_intervention(student, advisor, title, description,
\* scheduled_date=scheduled_date)
CI_Schedule(c, student, advisor, scheduled_date) ==
    CI_Create(c, [NoCall EXCEPT !.op = "create_intervention"],
              CreateArgs(student, advisor, ManagerTitle, "Check-in", None, None,
                         scheduled_date, None))

\* create_intervention called with the parameters a template could supply:
\* type_id None or Some(id), priority None (left out) or Some(p)
CI_Call(c, student, advisor, type_id, priority, description) ==
    CI_Create(c, [NoCall EXCEPT !.op = "create_intervention", !.type_id = type_id,
                                !.priority = priority,
                                !.description = Some(description)],
              CreateArgs(student, advisor, ManagerTitle, description, type_id,
                         priority, None, None))

\* -- InterventionManager.create_from_template / create_bulk_interventions ----
\* SELECT * FROM intervention_types WHERE intervention_type_id = ? found no
\* row: raise ValueError("Template not found")
TemplateNotFound(c, rec) ==
    /\ pc[c] = "idle"
    /\ ncalls < MaxCalls
    /\ ncalls' = ncalls + 1
    /\ call' = [call EXCEPT ![c] = [rec EXCEPT !.result = "ValueError"]]
    /\ UNCHANGED <<interventions, notifications, audit_logs, pc, recorded>>
    /\ UNCHANGED <<riskVars, mailVars, testVars>>

\* create_from_template(student_id, advisor_id, template_id, scheduled_date):
\* title, description and priority are the template's
CF_Create(c, student, advisor, template_id, scheduled_date) ==
    LET rec == [NoCall EXCEPT !.op = "create_from_template",
                              !.type_id = Some(template_id)]
    IN
    IF template_id \in DOMAIN intervention_types
    THEN LET template == intervention_types[template_id] IN
         CI_Create(c, rec,
                   CreateArgs(student, advisor, template.type_name,
                              template.description, Some(template_id),
                              Some(template.default_priority), scheduled_date, None))
    ELSE TemplateNotFound(c, rec)

\* create_bulk_interventions(student_ids, advisor_id, intervention_type_id,
\* priority='Medium'): the template lookup
CB_Begin(c, students, advisor, type_id, priority) ==
    LET rec == [NoCall EXCEPT !.op = "create_bulk_interventions",
                              !.type_id = Some(type_id), !.priority = priority,
                              !.advisor = advisor, !.todo = students]
    IN
    IF type_id \in DOMAIN intervention_types
    THEN /\ Len(interventions) + Len(students) <= MaxInterventions
         /\ Enter(c, rec)
         /\ pc' = [pc EXCEPT ![c] = "cb_loop"]
         /\ UNCHANGED <<interventions, notifications, audit_logs, recorded>>
         /\ UNCHANGED <<riskVars, mailVars, testVars>>
    ELSE TemplateNotFound(c, rec)

\* for student_id in student_ids: create_intervention(title and description of
\* the template, priority=priority); after the last one, return the ids
CB_Loop(c) ==
    LET rec == call[c]
        id == Len(interventions) + 1
        template == intervention_types[rec.type_id[1]]
    IN
    /\ pc[c] = "cb_loop"
    /\ IF rec.todo = <<>>
       THEN /\ Return(c, rec, "ok")
            /\ UNCHANGED <<interventions, recorded>>
       ELSE /\ Len(interventions) < MaxInterventions
            /\ Head(rec.todo) \in StudentIds
            /\ interventions' =
                  Append(interventions,
                         ScheduledRow(CreateArgs(Head(rec.todo), rec.advisor,
                                                 template.type_name, template.description,
                                                 rec.type_id,
                                                 Some(Given(rec.priority, "Medium")),
                                                 None, None)))
            /\ recorded' = [recorded EXCEPT ![id] = {}]
            /\ call' = [call EXCEPT ![c] = [rec EXCEPT !.student = Head(rec.todo),
                                                       !.id = id,
                                                       !.todo = Tail(rec.todo)]]
            /\ pc' = [pc EXCEPT ![c] = "ci_notify"]
    /\ UNCHANGED <<notifications, audit_logs, ncalls>>
    /\ UNCHANGED <<riskVars, mailVars, testVars>>

\* create_intervention raises for the next student id: the INSERT names a
\* student that has no row (FOREIGN KEY constraint, PRAGMA foreign_keys = ON).
\* Nothing catches the exception: it leaves create_bulk_interventions.
CB_CreateFails(c) ==
    /\ pc[c] = "cb_loop"
    /\ call[c].todo # <<>>
    /\ Head(call[c].todo) \notin StudentIds
    /\ Return(c, call[c], "IntegrityError")
    /\ UNCHANGED <<interventions, notifications, audit_logs, recorded, ncalls>>
    /\ UNCHANGED <<riskVars, mailVars, testVars>>

\* -- advisor dashboard: Create Intervention --------------------------------
DashboardTitle == "Academic Support"

\* INSERT INTO interventions (..., priority, status, scheduled_date, ...) VALUES
\* (..., 'High' if RiskCategory in ['Critical', 'High'] else 'Medium',
\*  'In Progress', now, ...) on the page's own connection
Dash_CreateIntervention(c, student, category) ==
    LET id == Len(interventions) + 1 IN
    /\ Len(interventions) < MaxInterventions
    /\ pc[c] = "idle"
    /\ ncalls < MaxCalls
    /\ ncalls' = ncalls + 1
    /\ interventions' = Append(interventions,
          NewIntervention(student, DashboardTitle, "In Progress", None)
              @@ PlanColumns(1, "Risk Level",
                             IF category \in {"Critical", "High"} THEN "High" ELSE "Medium",
                             Some(strftime(now)), None))
    /\ recorded' = [recorded EXCEPT ![id] = {}]
    /\ call' = [call EXCEPT ![c] = [NoCall EXCEPT !.op = "dashboard_create",
                                       !.id = id, !.result = "ok"]]
    /\ UNCHANGED <<notifications, audit_logs, pc>>
    /\ UNCHANGED <<riskVars, mailVars, testVars>>

\* -- student portal: Request Appointment ------------------------------------
RequestAppointment(c, student) ==
    LET id == Len(interventions) + 1 IN
    /\ Len(interventions) < MaxInterventions
    /\ pc[c] = "idle"
    /\ ncalls < MaxCalls
    /\ ncalls' = ncalls + 1
    /\ interventions' = Append(interventions,
          NewIntervention(student, AppointmentTitle, "Pending", None)
              @@ PlanColumns(1, "Preferred Date/Time", "Medium", None, None))
    /\ recorded' = [recorded EXCEPT ![id] = {}]
    /\ call' = [call EXCEPT ![c] = [NoCall EXCEPT !.op = "request_appointment",
                                       !.student = student, !.id = id, !.result = "ok"]]
    /\ UNCHANGED <<notifications, audit_logs, pc>>
    /\ UNCHANGED <<riskVars, mailVars, testVars>>

\* -- InterventionManager.update_status --------------------------------------
\* f"{existing_notes}\n\n[{timestamp}] Status changed to {new_status}\n{notes}":
\* the note texts the new string holds; a NULL column formats as "None"
AppendNote(existing, note) ==
    (IF existing = None THEN <<"None">> ELSE existing) \o note

\* entering the call; with notes, the SELECT of the existing notes
US_Begin(c, id, st, notes) ==
    /\ Enter(c, [NoCall EXCEPT !.op = "update_status", !.id = id, !.to = st,
                    !.notes = notes,
                    !.upd_notes = IF notes # None /\ Exists(id)
                                  THEN Some(AppendNote(interventions[id].notes, notes))
                                  ELSE None])
    /\ pc' = [pc EXCEPT ![c] = "us_update"]
    /\ UNCHANGED <<interventions, notifications, audit_logs, recorded>>
    /\ UNCHANGED <<riskVars, mailVars, testVars>>

\* update_status that would leave completed_date out of its update_data
UpdateStatusRowNoDate(row, rec) ==
    [row EXCEPT !.status = rec.to,
                !.notes = IF rec.upd_notes # None THEN rec.upd_notes[1] ELSE @]

\* update_data = {'status': new_status}, plus notes when given, plus
\* completed_date = now when new_status == 'Completed'
UpdateStatusRow(row, rec) ==
    [row EXCEPT !.status = rec.to,
                !.notes = IF rec.upd_notes # None THEN rec.upd_notes[1] ELSE @,
                !.completed_date = IF rec.to = "Completed" THEN Some(now) ELSE @]

\* db.update_intervention(id, status=..., [notes=...], [completed_date=...])
US_Update(c) ==
    LET id == call[c].id
        rows == IF Exists(id)
                THEN update_intervention(id, UpdateStatusRow(interventions[id], call[c]))
                ELSE interventions
    IN
    /\ pc[c] = "us_update"
    /\ interventions' = rows
    /\ recorded' = IF Exists(id) /\ call[c].upd_notes # None
                   THEN [recorded EXCEPT ![id] = @ \cup Range(call[c].notes)]
                   ELSE recorded
    /\ call' = [call EXCEPT ![c] = Wrote(call[c], id, rows)]
    /\ pc' = [pc EXCEPT ![c] = "us_log"]
    /\ UNCHANGED <<notifications, audit_logs, ncalls>>
    /\ UNCHANGED <<riskVars, mailVars, testVars>>

\* log_action(None, 'INTERVENTION_STATUS_UPDATED', 'interventions', id); return True
US_Log(c) ==
    /\ pc[c] = "us_log"
    /\ audit_logs' = log_action("INTERVENTION_STATUS_UPDATED", call[c].id)
    /\ Return(c, [call[c] EXCEPT !.audits = @ + 1], "ok")
    /\ UNCHANGED <<interventions, notifications, recorded, ncalls>>
    /\ UNCHANGED <<riskVars, mailVars, testVars>>

\* -- InterventionManager.complete_intervention ------------------------------
CO_Begin(c, id, outcome, rating) ==
    /\ Enter(c, [NoCall EXCEPT !.op = "complete_intervention", !.id = id,
                    !.to = "Completed", !.outcome = outcome, !.rating = rating])
    /\ pc' = [pc EXCEPT ![c] = "co_update"]
    /\ UNCHANGED <<interventions, notifications, audit_logs, recorded>>
    /\ UNCHANGED <<riskVars, mailVars, testVars>>

CompleteRow(row, rec) ==
    [row EXCEPT !.status = "Completed",
                !.completed_date = Some(now),
                !.outcome_assessment = rec.outcome,
                !.success_rating = rec.rating]

\* db.update_intervention(id, status='Completed', completed_date=now, ...)
CO_Update(c) ==
    LET id == call[c].id
        rows == IF Exists(id)
                THEN update_intervention(id, CompleteRow(interventions[id], call[c]))
                ELSE interventions
    IN
    /\ pc[c] = "co_update"
    /\ interventions' = rows
    /\ call' = [call EXCEPT ![c] = Wrote(call[c], id, rows)]
    /\ pc' = [pc EXCEPT ![c] = "co_notify"]
    /\ UNCHANGED <<notifications, audit_logs, recorded, ncalls>>
    /\ UNCHANGED <<riskVars, mailVars, testVars>>

\* get_intervention_by_id, get_student_by_id, create_notification; return True
CO_Notify(c) ==
    LET id == call[c].id
        user == IF Exists(id) THEN StudentUser(interventions[id].student_id) ELSE 0
    IN
    /\ pc[c] = "co_notify"
    /\ notifications' = IF user # 0
                        THEN create_notification(user, "intervention_completed", id)
                        ELSE notifications
    /\ Return(c, call[c], "ok")
    /\ UNCHANGED <<interventions, audit_logs, recorded, ncalls>>
    /\ UNCHANGED <<riskVars, mailVars, testVars>>

\* -- InterventionManager.schedule_follow_up ---------------------------------
FU_Begin(c, id, date, notes) ==
    /\ Enter(c, [NoCall EXCEPT !.op = "schedule_follow_up", !.id = id,
                    !.date = date, !.notes = notes])
    /\ pc' = [pc EXCEPT ![c] = "fu_update"]
    /\ UNCHANGED <<interventions, notifications, audit_logs, recorded>>
    /\ UNCHANGED <<riskVars, mailVars, testVars>>

FollowUpRow(row, rec) ==
    [row EXCEPT !.follow_up_required = 1,
                !.follow_up_date = rec.date,
                !.notes = rec.notes]

\* db.update_intervention(id, follow_up_required=1, follow_up_date=, notes=); return True
FU_Update(c) ==
    LET id == call[c].id
        rows == IF Exists(id)
                THEN update_intervention(id, FollowUpRow(interventions[id], call[c]))
                ELSE interventions
    IN
    /\ pc[c] = "fu_update"
    /\ interventions' = rows
    /\ recorded' = IF Exists(id)
                   THEN [recorded EXCEPT ![id] = @ \cup Range(call[c].notes)]
                   ELSE recorded
    /\ Return(c, Wrote(call[c], id, rows), "ok")
    /\ UNCHANGED <<notifications, audit_logs, ncalls>>
    /\ UNCHANGED <<riskVars, mailVars, testVars>>

\* -- advisor dashboard: appointment requests --------------------------------
\* the page lists the rows WHERE status = 'Pending' AND title LIKE
\* '%Appointment Request%'; the advisor clicks Approve or Decline on one
Dash_Click(c, id, op) ==
    /\ Exists(id)
    /\ interventions[id].status = "Pending"
    /\ interventions[id].title = AppointmentTitle
    /\ Enter(c, [NoCall EXCEPT !.op = op, !.id = id,
                    !.to = IF op = "approve" THEN "Scheduled" ELSE "Cancelled"])
    /\ pc' = [pc EXCEPT ![c] = "dash_update"]
    /\ UNCHANGED <<interventions, notifications, audit_logs, recorded>>
    /\ UNCHANGED <<riskVars, mailVars, testVars>>

\* UPDATE interventions SET status = 'Scheduled' | 'Cancelled' WHERE intervention_id = ?
Dash_Update(c) ==
    LET id == call[c].id
        rows == IF Exists(id)
                THEN update_intervention(id, [interventions[id] EXCEPT !.status = call[c].to])
                ELSE interventions
    IN
    /\ pc[c] = "dash_update"
    /\ interventions' = rows
    /\ Return(c, Wrote(call[c], id, rows), "ok")
    /\ UNCHANGED <<notifications, audit_logs, recorded, ncalls>>
    /\ UNCHANGED <<riskVars, mailVars, testVars>>

\* -- the read-only queries ------------------------------------------------------
\* params = []; if advisor_id: query += " AND i.advisor_id = ?"
AdvisorFilter(advisor, row) ==
    IF advisor = None THEN TRUE ELSE row.advisor_id = advisor[1]

\* SELECT ... WHERE i.status = 'Scheduled' AND i.scheduled_date < date('now')
\* (a NULL scheduled_date compares as NULL: the row is not selected)
get_overdue_interventions(advisor) ==
    {i \in DOMAIN interventions :
        LET row == interventions[i] IN
        /\ row.status = "Scheduled"
        /\ IF row.scheduled_date = None THEN FALSE
           ELSE TextLess(row.scheduled_date[1], sql_date(now))
        /\ AdvisorFilter(advisor, row)}

\* FROM interventions i JOIN students s ON i.student_id = s.student_id
\* LEFT JOIN risk_scores rs ON s.student_id = rs.student_id AND rs.is_current = 1
\* The rows intervention i has in the join, as <<intervention_id,
\* risk_score_id>>: one per current risk row of its student, in whatever
\* term, or one with the rs columns NULL (0) when the student has none.
JoinCurrentRisk(i) ==
    LET matching == CurrentRows(interventions[i].student_id) IN
    IF matching = {} THEN {<<i, 0>>} ELSE {<<i, r>> : r \in matching}

\* get_pending_interventions(advisor_id): the rows of that join
\* WHERE i.status IN ('Scheduled', 'In Progress') [AND i.advisor_id = ?]
get_pending_interventions(advisor) ==
    UNION {JoinCurrentRisk(i) : i \in {j \in DOMAIN interventions :
              /\ interventions[j].status \in {"Scheduled", "In Progress"}
              /\ AdvisorFilter(advisor, interventions[j])}}

\* SELECT ... WHERE i.follow_up_required = 1
\* AND i.follow_up_date <= date('now', '+7 days') AND i.status = 'Completed'
get_follow_ups_due(advisor) ==
    {i \in DOMAIN interventions :
        LET row == interventions[i] IN
        /\ row.follow_up_required = 1
        /\ IF row.follow_up_date = None THEN FALSE
           ELSE ~TextLess(sql_date_plus(now, 7), <<row.follow_up_date[1]>>)
        /\ row.status = "Completed"
        /\ AdvisorFilter(advisor, row)}

\* db.get_interventions(advisor_id=, status=)
get_interventions(advisor, status) ==
    {i \in DOMAIN interventions :
        /\ AdvisorFilter(advisor, interventions[i])
        /\ IF status = NULL THEN TRUE ELSE interventions[i].status = status}

\* execute_query: one SELECT on its own connection; the caller gets the rows
Query(c, op, advisor, rows) ==
    /\ pc[c] = "idle"
    /\ ncalls < MaxCalls
    /\ ncalls' = ncalls + 1
    /\ call' = [call EXCEPT ![c] = [NoCall EXCEPT !.op = op,
                                       !.advisor = Given(advisor, 0),
                                       !.rows = rows, !.result = "ok"]]
    /\ UNCHANGED <<interventions, notifications, audit_logs, pc, recorded>>
    /\ UNCHANGED <<riskVars, mailVars, testVars>>

\* a query that would mark what it finds overdue as missed
Q_OverdueMarksNoShow(c, advisor) ==
    /\ pc[c] = "idle"
    /\ ncalls < MaxCalls
    /\ ncalls' = ncalls + 1
    /\ call' = [call EXCEPT ![c] = [NoCall EXCEPT !.op = "get_overdue_interventions",
                                       !.advisor = Given(advisor, 0),
                                       !.rows = get_overdue_interventions(advisor),
                                       !.result = "ok"]]
    /\ interventions' = [i \in DOMAIN interventions |->
                            IF i \in get_overdue_interventions(advisor)
                            THEN [interventions[i] EXCEPT !.status = "No-Show"]
                            ELSE interventions[i]]
    /\ UNCHANGED <<notifications, audit_logs, pc, recorded>>
    /\ UNCHANGED <<riskVars, mailVars, testVars>>

Q_Overdue(c, advisor) ==
    Query(c, "get_overdue_interventions", advisor, get_overdue_interventions(advisor))

Q_Pending(c, advisor) ==
    Query(c, "get_pending_interventions", advisor, get_pending_interventions(advisor))

Q_FollowUps(c, advisor) ==
    Query(c, "get_follow_ups_due", advisor, get_follow_ups_due(advisor))

Q_Get(c, advisor, status) ==
    Query(c, "get_interventions", advisor, get_interventions(advisor, status))

\* -- notifications: the inbox ----------------------------------------------
MaxNotifications == 2           \* rows of notifications the inbox steps explore

UserIds == {1, 2, 10}           \* user_id values the notifications are addressed to

\* the target lists of the dashboard's Send Alert form (rows of filtered_df)
AlertTargets == {<<>>, <<1>>, <<1, 2>>}

\* the alert rows appended so far by the loop of Send Alert
RECURSIVE AlertRows(_, _)
AlertRows(rows, targets) ==
    IF targets = <<>> THEN rows
    ELSE AlertRows(Append(rows, [user_id |-> Head(targets), notification_type |-> "alert",
                                 related_entity_type |-> NULL, related_entity_id |-> 0]
                                    @@ NotificationDefaults),
                   Tail(targets))

\* dashboard, Send Alert: for each target student INSERT INTO notifications
\* (user_id, notification_type, title, message, priority) with user_id =
\* student['StudentID'], all in one transaction
Dash_SendAlert(targets) ==
    /\ Len(notifications) + Len(targets) <= MaxNotifications
    /\ notifications' = AlertRows(notifications, targets)
    /\ UNCHANGED <<interventions, audit_logs, pc, call, recorded, ncalls>>
    /\ UNCHANGED <<riskVars, mailVars, testVars>>

\* a mark_notification_read that would flip the flag
N_MarkReadToggles(n) ==
    /\ n \in DOMAIN notifications
    /\ notifications' = [notifications EXCEPT ![n].is_read = 1 - @,
                                              ![n].read_at = Some(now)]
    /\ UNCHANGED <<interventions, audit_logs, pc, call, recorded, ncalls>>
    /\ UNCHANGED <<riskVars, mailVars, testVars>>

\* mark_notification_read(n): UPDATE notifications SET is_read = 1,
\* read_at = CURRENT_TIMESTAMP WHERE notification_id = ?  (no row: no change)
N_MarkRead(n) ==
    /\ notifications' = IF n \in DOMAIN notifications
                        THEN [notifications EXCEPT ![n].is_read = 1,
                                                   ![n].read_at = Some(now)]
                        ELSE notifications
    /\ UNCHANGED <<interventions, audit_logs, pc, call, recorded, ncalls>>
    /\ UNCHANGED <<riskVars, mailVars, testVars>>

\* SELECT * FROM notifications WHERE user_id = ? AND is_read = 0
\* ORDER BY created_at DESC, over the rows of the table: the ids selected
Unread(rows, user) ==
    {n \in DOMAIN rows : rows[n].user_id = user /\ rows[n].is_read = 0}

get_unread_notifications(user) == Unread(notifications, user)

\* a database call of a running create_intervention raises (get_connection
\* re-raises): the exception leaves the call, no later step of it runs
DbCallRaises(c) ==
    /\ pc[c] \in {"ci_notify", "ci_log"}
    /\ Return(c, call[c], "StorageError")
    /\ UNCHANGED <<interventions, notifications, audit_logs, recorded, ncalls>>
    /\ UNCHANGED <<riskVars, mailVars, testVars>>

IntInit ==
    /\ interventions = <<>>
    /\ notifications = <<>>
    /\ audit_logs = <<>>
    /\ pc = [c \in Callers |-> "idle"]
    /\ call = [c \in Callers |-> NoCall]
    /\ recorded = [i \in InterventionIds |-> {}]
    /\ ncalls = 0

IntNext ==
    \/ \E c \in Callers, s \in StudentIds, n \in CreateNotes : CI_Insert(c, s, n)
    \/ \E c \in Callers : CI_Notify(c)
    \/ \E c \in Callers : CI_Log(c)
    \/ \E c \in Callers, s \in StudentIds : RequestAppointment(c, s)
    \/ \E c \in Callers, id \in InterventionIds, st \in NewStatuses, n \in StatusNotes :
          US_Begin(c, id, st, n)
    \/ \E c \in Callers : US_Update(c)
    \/ \E c \in Callers : US_Log(c)
    \/ \E c \in Callers, id \in InterventionIds, o \in Outcomes, r \in Ratings :
          CO_Begin(c, id, o, r)
    \/ \E c \in Callers : CO_Update(c)
    \/ \E c \in Callers : CO_Notify(c)
    \/ \E c \in Callers, id \in InterventionIds, d \in FollowUpDates, n \in FollowUpNotes :
          FU_Begin(c, id, d, n)
    \/ \E c \in Callers : FU_Update(c)
    \/ \E c \in Callers, id \in InterventionIds, op \in {"approve", "decline"} :
          Dash_Click(c, id, op)
    \/ \E c \in Callers : Dash_Update(c)
    \/ \E c \in Callers : DbCallRaises(c)

\* ---- email_queue ------------------------------------------------------

RetryLimit == 3                 \* WHERE status = 'Pending' AND retry_count < 3
DefaultLimit == 10              \* process_email_queue(self, limit=10)
MaxQueue == 4                   \* rows of email_queue explored
MaxAttempts == 5                \* send attempts per message explored

Messages == {1, 2, 3}            \* the emails (recipient, subject, body) queued
NeverDelivered == {1}           \* those whose SMTP delivery fails every time

\* INSERT INTO email_queue (to_email, ..., priority, status) VALUES (..., 'Pending');
\* retry_count takes the column default, 0
QueuedEmail(m) == [message |-> m, status |-> "Pending", retry_count |-> 0]

\* send_email with the service disabled (_queue_email), or the dashboard's
\* INSERT INTO email_queue: message m is queued.  The INSERT gets the write
\* lock while no open transaction has written.
MQ_Queue(m) ==
    /\ Len(email_queue) < MaxQueue
    /\ mq_tx = <<>>
    /\ \A i \in DOMAIN email_queue : email_queue[i].message # m
    /\ email_queue' = Append(email_queue, QueuedEmail(m))
    /\ UNCHANGED <<mq_pc, mq_batch, mq_tx, attempts, deliveries>>
    /\ UNCHANGED <<riskVars, intVars, testVars>>

\* SELECT * FROM email_queue WHERE status = 'Pending' AND retry_count < 3
\* ORDER BY priority DESC, created_at ASC LIMIT ?  (equal priorities: the
\* order of insertion)
SelectPending(limit) ==
    LET Pending(i) == /\ email_queue[i].status = "Pending"
                      /\ email_queue[i].retry_count < RetryLimit
        all == SelectSeq([i \in DOMAIN email_queue |-> i], Pending)
    IN SubSeq(all, 1, IF Len(all) < limit THEN Len(all) ELSE limit)

\* process_email_queue(limit) with the service enabled: the connection is
\* opened and the pending emails are fetched
PQ_Begin(limit) ==
    /\ mq_pc = "idle"
    /\ mq_batch' = SelectPending(limit)
    /\ mq_tx' = <<>>
    /\ mq_pc' = "loop"
    /\ UNCHANGED <<email_queue, attempts, deliveries>>
    /\ UNCHANGED <<riskVars, intVars, testVars>>

\* the row as the worker's transaction sees it
TxRow(i) == IF i \in DOMAIN mq_tx THEN mq_tx[i] ELSE email_queue[i]

\* send_email is called for message m: one more attempt
Attempt(m) == [attempts EXCEPT ![m] = IF @ < MaxAttempts THEN @ + 1 ELSE @]

\* send_email was called for row id and failed
Tried(id) == [deliveries EXCEPT ![id].attempted = TRUE]

\* send_email was called for row id and delivered it (a second delivery is
\* the last one told apart)
Delivered(id) ==
    [deliveries EXCEPT ![id].attempted = TRUE, ![id].sent = IF @ < 2 THEN @ + 1 ELSE @]

\* send_email succeeds: UPDATE email_queue SET status = 'Sent', sent_at = ...
PQ_Sent ==
    LET id == Head(mq_batch)
        m == email_queue[id].message
    IN
    /\ mq_pc = "loop"
    /\ mq_batch # <<>>
    /\ m \notin NeverDelivered
    /\ attempts' = Attempt(m)
    /\ deliveries' = Delivered(id)
    /\ mq_tx' = (id :> [TxRow(id) EXCEPT !.status = "Sent"]) @@ mq_tx
    /\ mq_batch' = Tail(mq_batch)
    /\ UNCHANGED <<email_queue, mq_pc>>
    /\ UNCHANGED <<riskVars, intVars, testVars>>

\* send_email fails: its except branch queues the email again (_queue_email,
\* an INSERT committed on a connection of its own) and returns False; the
\* worker then runs UPDATE email_queue SET retry_count = retry_count + 1.
\* The INSERT gets the write lock only while the worker's transaction has
\* written nothing yet.
PQ_SendFails ==
    LET id == Head(mq_batch)
        m == email_queue[id].message
    IN
    /\ mq_pc = "loop"
    /\ mq_batch # <<>>
    /\ mq_tx = <<>>
    /\ Len(email_queue) < MaxQueue
    /\ attempts' = Attempt(m)
    /\ deliveries' = Tried(id)
    /\ email_queue' = Append(email_queue, QueuedEmail(m))
    /\ mq_tx' = (id :> [TxRow(id) EXCEPT !.retry_count = @ + 1])
    /\ mq_batch' = Tail(mq_batch)
    /\ UNCHANGED mq_pc
    /\ UNCHANGED <<riskVars, intVars, testVars>>

\* send_email fails while the worker's transaction holds the write lock:
\* the INSERT of _queue_email raises "database is locked" out of send_email
\* and out of process_email_queue; get_connection rolls the worker's
\* transaction back
PQ_Locked ==
    LET id == Head(mq_batch)
        m == email_queue[id].message
    IN
    /\ mq_pc = "loop"
    /\ mq_batch # <<>>
    /\ mq_tx # <<>>
    /\ attempts' = Attempt(m)
    /\ deliveries' = Tried(id)
    /\ mq_tx' = <<>>
    /\ mq_batch' = <<>>
    /\ mq_pc' = "idle"
    /\ UNCHANGED email_queue
    /\ UNCHANGED <<riskVars, intVars, testVars>>

\* the loop is over: return sent_count; the with-block commits
PQ_Commit ==
    /\ mq_pc = "loop"
    /\ mq_batch = <<>>
    /\ email_queue' = [i \in DOMAIN email_queue |-> TxRow(i)]
    /\ mq_tx' = <<>>
    /\ mq_pc' = "idle"
    /\ UNCHANGED <<mq_batch, attempts, deliveries>>
    /\ UNCHANGED <<riskVars, intVars, testVars>>

MailInit ==
    /\ email_queue = <<>>
    /\ mq_pc = "idle"
    /\ mq_batch = <<>>
    /\ mq_tx = <<>>
    /\ attempts = [m \in Messages |-> 0]
    /\ deliveries = [i \in 1..MaxQueue |-> [attempted |-> FALSE, sent |-> 0]]

MailNext ==
    \/ \E m \in Messages : MQ_Queue(m)
    \/ \E limit \in {1, DefaultLimit} : PQ_Begin(limit)
    \/ PQ_Sent
    \/ PQ_SendFails
    \/ PQ_Locked
    \/ PQ_Commit

\* ---- tests/test_warning_system.py: WarningSystemTester --------------------
MaxTests == 3                   \* profiles tested in one behaviour

\* create_test_student_profiles(): gpa in tenths, attendance_rate and
\* engagement_score in hundredths
test_profiles ==
    <<[name |-> "High Risk - Academic Struggling", student_id |-> "TEST_HR_001",
       gpa |-> 18, credits_attempted |-> 45, credits_earned |-> 30,
       attendance_rate |-> 65, engagement_score |-> 40,
       financial_aid |-> 1, first_generation |-> 1, risk_level |-> "High",
       expected_warnings |-> <<"GPA Drop", "Low Attendance", "Credit Deficit">>],
      [name |-> "Medium Risk - Attendance Issues", student_id |-> "TEST_MR_001",
       gpa |-> 28, credits_attempted |-> 60, credits_earned |-> 55,
       attendance_rate |-> 72, engagement_score |-> 60,
       financial_aid |-> 0, first_generation |-> 0, risk_level |-> "Medium",
       expected_warnings |-> <<"Attendance Warning">>],
      [name |-> "Low Risk - Good Standing", student_id |-> "TEST_LR_001",
       gpa |-> 35, credits_attempted |-> 75, credits_earned |-> 75,
       attendance_rate |-> 95, engagement_score |-> 90,
       financial_aid |-> 0, first_generation |-> 0, risk_level |-> "Low",
       expected_warnings |-> <<>>],
      [name |-> "High Risk - Financial & Engagement", student_id |-> "TEST_HR_002",
       gpa |-> 22, credits_attempted |-> 30, credits_earned |-> 25,
       attendance_rate |-> 70, engagement_score |-> 30,
       financial_aid |-> 1, first_generation |-> 1, risk_level |-> "High",
       expected_warnings |-> <<"Low GPA", "Low Engagement", "Financial Risk">>],
      [name |-> "Medium Risk - Declining Performance", student_id |-> "TEST_MR_002",
       gpa |-> 25, credits_attempted |-> 90, credits_earned |-> 80,
       attendance_rate |-> 80, engagement_score |-> 65,
       financial_aid |-> 1, first_generation |-> 0, risk_level |-> "Medium",
       expected_warnings |-> <<"GPA Watch", "Credit Progress">>],
      [name |-> "Critical Risk - Multiple Issues", student_id |-> "TEST_CR_001",
       gpa |-> 15, credits_attempted |-> 40, credits_earned |-> 20,
       attendance_rate |-> 55, engagement_score |-> 20,
       financial_aid |-> 1, first_generation |-> 1, risk_level |-> "Critical",
       expected_warnings |-> <<"Academic Probation", "Severe Attendance",
                               "High Credit Deficit", "Very Low Engagement">>]>>

Warning(type, severity) == [type |-> type, severity |-> severity]

\* if ...: warnings.append(...), else nothing
When(cond, warning) == IF cond THEN <<warning>> ELSE <<>>

\* generate_warnings_for_profile(profile): the warnings in the order they
\* are appended (the message texts are left out).  completion_rate =
\* credits_earned / credits_attempted, 0 when nothing was attempted;
\* completion_rate < 0.67 is credits_earned * 100 < 67 * credits_attempted.
generate_warnings_for_profile(profile) ==
    LET BelowRate(pct) ==
            IF profile.credits_attempted > 0
            THEN profile.credits_earned * 100 < pct * profile.credits_attempted
            ELSE TRUE
        gpa_w ==
            IF profile.gpa < 20 THEN <<Warning("Academic Probation", "Critical")>>
            ELSE IF profile.gpa < 25 THEN <<Warning("Low GPA", "High")>>
            ELSE IF profile.gpa < 30 THEN <<Warning("GPA Watch", "Medium")>>
            ELSE <<>>
        credit_w ==
            IF BelowRate(67) THEN <<Warning("High Credit Deficit", "Critical")>>
            ELSE IF BelowRate(80) THEN <<Warning("Credit Progress", "Medium")>>
            ELSE <<>>
        attendance_w ==
            IF profile.attendance_rate < 70 THEN <<Warning("Severe Attendance", "Critical")>>
            ELSE IF profile.attendance_rate < 80
                 THEN <<Warning("Attendance Warning", "High")>>
            ELSE <<>>
        engagement_w ==
            IF profile.engagement_score < 40
            THEN <<Warning("Very Low Engagement", "Critical")>>
            ELSE IF profile.engagement_score < 60 THEN <<Warning("Low Engagement", "High")>>
            ELSE <<>>
        financial_w ==
            When(profile.financial_aid = 1 /\ profile.gpa < 25,
                 Warning("Financial Aid Risk", "High"))
        sofar == gpa_w \o credit_w \o attendance_w \o engagement_w \o financial_w
    IN sofar \o When(profile.first_generation = 1 /\ Len(sofar) > 0,
                     Warning("First-Gen Support Needed", "Medium"))

\* store_warning(student_id, warning): INSERT INTO interventions (student_id,
\* intervention_type, description, priority, status, created_date) VALUES
\* (?, type, message, severity, 'Pending', today)
StoredWarning(student, warning) ==
    [student_id |-> student, intervention_type |-> warning.type,
     priority |-> warning.severity, status |-> "Pending", created_date |-> sql_date(now)]

\* test_warning_generation(profile): the warnings are generated, each one is
\* stored, and the result is appended to test_results.  The INSERT of
\* store_warning names columns of table interventions; when the table lacks
\* one, the statement raises and store_warning swallows the exception
\* (except: rollback), so either every warning is stored or none.
test_warning_generation(k, columns_exist) ==
    LET profile == test_profiles[k]
        warnings == generate_warnings_for_profile(profile)
    IN
    /\ Len(test_results) < MaxTests
    /\ interventions' =
          IF columns_exist
          THEN interventions \o [j \in DOMAIN warnings |->
                                    StoredWarning(profile.student_id, warnings[j])]
          ELSE interventions
    /\ test_results' = Append(test_results,
          [profile_name |-> profile.name, student_id |-> profile.student_id,
           risk_level |-> profile.risk_level, warnings_generated |-> Len(warnings),
           warning_types |-> [j \in DOMAIN warnings |-> warnings[j].type]])
    /\ UNCHANGED <<notifications, audit_logs, pc, call, recorded, ncalls>>
    /\ UNCHANGED <<riskVars, mailVars>>

TestInit == test_results = <<>>

TestNext ==
    \E k \in DOMAIN test_profiles, columns_exist \in BOOLEAN :
        test_warning_generation(k, columns_exist)

Init == RiskInit /\ IntInit /\ MailInit /\ TestInit

\* the email worker: emails are queued, process_email_queue runs again and again
MailSpec == Init /\ [][MailNext]_vars

\* the steps of process_email_queue
Worker ==
    \/ \E limit \in {1, DefaultLimit} : PQ_Begin(limit)
    \/ PQ_Sent
    \/ PQ_SendFails
    \/ PQ_Locked
    \/ PQ_Commit

\* the email worker kept running: process_email_queue is invoked again and
\* again, and a call that has a step to take takes it
FairMailSpec == Init /\ [][MailNext]_vars /\ WF_vars(Worker)

\* the warning system tester run on the built-in profiles, in any order
TestSpec == Init /\ [][TestNext]_vars

\* the intervention lifecycle: callers of InterventionManager and the pages
Spec == Init /\ [][IntNext]_vars

\* the risk ledger: callers of create_risk_score, and the clock
RiskSpec == Init /\ [][RiskNext]_vars

\* ---- what create_risk_score is called with ----------------------------
StudentArgs == {1, 3}           \* 3: no such row in table students
ScoreArgs == {82, 120}          \* 0.82, 1.20
FactorArgs == {<<Some(40), Some(55), Some(10), Some(0)>>,
               <<Some(40), Some(150), None, None>>}
CategoryArgs == {NULL, "Critical"}

ScoreNext ==
    \/ \E c \in Callers, s \in StudentArgs, x \in ScoreArgs, f \in FactorArgs,
          k \in CategoryArgs : RS_CallWith(c, s, 1, x, f, k)
    \/ \E c \in Callers : RS_Update(c)
    \/ \E c \in Callers : RS_Insert(c)
    \/ \E c \in Callers : RS_InsertFails(c)
    \/ \E c \in Callers : RS_Raise(c)
    \/ \E c \in Callers : RS_Commit(c)

\* callers of create_risk_score with any scores, sub-factors and category,
\* for a student that exists or not
ScoreSpec == Init /\ [][ScoreNext]_vars

\* ---- the creation paths -------------------------------------------------
TypeArgs == {None} \cup {Some(k) : k \in DOMAIN intervention_types}
PriorityArgs == {None, Some("Low")}
BulkLists == {<<1>>, <<2, 1>>}

CreateNext ==
    \/ \E c \in Callers, s \in StudentIds, t \in TypeArgs, p \in PriorityArgs :
          CI_Call(c, s, 1, t, p, "Check-in")
    \/ \E c \in Callers, s \in StudentIds, t \in TemplateIds :
          CF_Create(c, s, 1, t, None)
    \/ \E c \in Callers, l \in BulkLists, t \in TemplateIds, p \in PriorityArgs :
          CB_Begin(c, l, 1, t, p)
    \/ \E c \in Callers : CB_Loop(c)
    \/ \E c \in Callers : CI_Notify(c)
    \/ \E c \in Callers : CI_Log(c)
    \/ \E c \in Callers, s \in StudentIds : RequestAppointment(c, s)
    \/ \E c \in Callers, s \in StudentIds, k \in {"Critical", "Low"} :
          Dash_CreateIntervention(c, s, k)
    \/ \E c \in Callers : DbCallRaises(c)

\* every way a row of interventions comes to exist: InterventionManager's
\* three create methods and the two pages that INSERT themselves
CreateSpec == Init /\ [][CreateNext]_vars

\* ---- the advisor's desk: schedule, work, look up --------------------------
\* scheduled_date arguments: none, yesterday, today at the first time of day
ScheduledDates == {None, Some(<<-1, 1>>), Some(<<0, 0>>)}

DeskNext ==
    \/ \E c \in Callers, a \in AdvisorIds, d \in ScheduledDates : CI_Schedule(c, 1, a, d)
    \/ \E c \in Callers : CI_Notify(c)
    \/ \E c \in Callers : CI_Log(c)
    \/ \E c \in Callers, id \in InterventionIds, st \in {"In Progress", "Completed"} :
          US_Begin(c, id, st, None)
    \/ \E c \in Callers : US_Update(c)
    \/ \E c \in Callers : US_Log(c)
    \/ \E c \in Callers, id \in InterventionIds :
          CO_Begin(c, id, "Improved attendance", Some(4))
    \/ \E c \in Callers : CO_Update(c)
    \/ \E c \in Callers : CO_Notify(c)
    \/ \E c \in Callers, a \in AdvisorIds : Q_Overdue(c, Some(a))
    \/ \E c \in Callers : Q_Pending(c, Some(1))
    \/ \E c \in Callers : Q_FollowUps(c, Some(1))
    \/ \E c \in Callers : Q_Get(c, None, "Scheduled")
    \/ Tick

\* interventions scheduled, worked on and completed by advisors who look
\* them up meanwhile, as time passes
DeskSpec == Init /\ [][DeskNext]_vars

\* ---- an overdue intervention ---------------------------------------------
Yesterday == Some(<<-1, 1>>)

OverdueNext ==
    \/ \E c \in Callers : CI_Schedule(c, 1, 1, Yesterday)
    \/ \E c \in Callers : CI_Notify(c)
    \/ \E c \in Callers : CI_Log(c)
    \/ \E c \in Callers, id \in InterventionIds, st \in {"In Progress", "Completed"} :
          US_Begin(c, id, st, None)
    \/ \E c \in Callers : US_Update(c)
    \/ \E c \in Callers : US_Log(c)
    \/ \E c \in Callers, id \in InterventionIds :
          CO_Begin(c, id, "Improved attendance", Some(4))
    \/ \E c \in Callers : CO_Update(c)
    \/ \E c \in Callers : CO_Notify(c)
    \/ \E c \in Callers : RequestAppointment(c, 1)
    \/ \E c \in Callers, id \in InterventionIds : Dash_Click(c, id, "approve")
    \/ \E c \in Callers : Dash_Update(c)
    \/ \E c \in Callers : Q_Overdue(c, Some(1))
    \/ \E c \in Callers : Q_Pending(c, Some(1))
    \/ \E c \in Callers : Q_FollowUps(c, Some(1))
    \/ \E c \in Callers : Q_Get(c, None, "Scheduled")
    \/ Tick

\* interventions that were due yesterday: looked up, worked on, completed
OverdueSpec == Init /\ [][OverdueNext]_vars

\* ---- notifications to the student ----------------------------------------
NotifyNext ==
    \/ \E c \in Callers, s \in StudentIds : CI_Call(c, s, 1, None, None, "Check-in")
    \/ \E c \in Callers, s \in StudentIds : CF_Create(c, s, 1, 1, None)
    \/ \E c \in Callers : CB_Begin(c, <<2, 1>>, 1, 1, None)
    \/ \E c \in Callers : CB_Loop(c)
    \/ \E c \in Callers : CI_Notify(c)
    \/ \E c \in Callers : CI_Log(c)
    \/ \E c \in Callers : DbCallRaises(c)
    \/ \E c \in Callers, id \in InterventionIds :
          CO_Begin(c, id, "Improved attendance", Some(4))
    \/ \E c \in Callers : CO_Update(c)
    \/ \E c \in Callers : CO_Notify(c)

\* the calls that notify the student: creating an intervention, completing it
NotifySpec == Init /\ [][NotifyNext]_vars

\* ---- bulk creation -----------------------------------------------------------
\* student_ids lists: two students, or a student and an id without a row
BulkArgs == {<<2, 1>>, <<1, 3>>}

BulkNext ==
    \/ \E c \in Callers, l \in BulkArgs : CB_Begin(c, l, 1, 1, None)
    \/ \E c \in Callers : CB_Loop(c)
    \/ \E c \in Callers : CB_CreateFails(c)
    \/ \E c \in Callers : CI_Notify(c)
    \/ \E c \in Callers : CI_Log(c)
    \/ \E c \in Callers : DbCallRaises(c)

\* advisors creating interventions for lists of students
BulkSpec == Init /\ [][BulkNext]_vars

\* ---- the advisor's pending list ----------------------------------------------
PendingNext ==
    \/ \E t \in TermIds : RS_Call(1, 1, t)
    \/ RS_Update(1)
    \/ RS_Insert(1)
    \/ RS_Commit(1)
    \/ \E c \in Callers : CI_Schedule(c, 1, 1, None)
    \/ \E c \in Callers : CI_Notify(c)
    \/ \E c \in Callers : CI_Log(c)
    \/ \E c \in Callers, id \in InterventionIds, st \in {"In Progress", "Completed"} :
          US_Begin(c, id, st, None)
    \/ \E c \in Callers : US_Update(c)
    \/ \E c \in Callers : US_Log(c)
    \/ \E c \in Callers : Q_Pending(c, Some(1))

\* the batch scorer records risk scores of a student while advisors create,
\* work on and list the student's interventions
PendingSpec == Init /\ [][PendingNext]_vars

\* ---- the inbox -------------------------------------------------------------
InboxNext ==
    \/ \E s \in StudentIds : CI_Call(1, s, 1, None, None, "Check-in")
    \/ CI_Notify(1)
    \/ CI_Log(1)
    \/ \E l \in AlertTargets : Dash_SendAlert(l)
    \/ \E n \in 1..(MaxNotifications + 1) : N_MarkRead(n)
    \/ Tick

\* notifications created by the lifecycle and by the dashboard's alert form,
\* read by their users as time passes
InboxSpec == Init /\ [][InboxNext]_vars

\* ---- properties of the risk ledger --------------------------------------

RowsOf(s, t) ==
    {i \in DOMAIN risk_scores :
        risk_scores[i].student_id = s /\ risk_scores[i].term_id = t}

CurrentOf(s, t) == {i \in RowsOf(s, t) : risk_scores[i].is_current = 1}

\* C1: for every (student, term), the committed ledger holds exactly one
\* current row once a create_risk_score call for the pair has committed, and
\* none before, whatever sequence of calls (failed ones included) has run.
C1_OneCurrentPerPair ==
    \A s \in StudentIds, t \in TermIds :
        Cardinality(CurrentOf(s, t)) = IF RowsOf(s, t) = {} THEN 0 ELSE 1

\* witness of C1: a pair recorded twice, the older row superseded, while
\* another pair keeps its own current row.
C1_Witness ==
    \E s \in StudentIds, t \in TermIds :
        /\ Cardinality(RowsOf(s, t)) >= 2
        /\ Cardinality(CurrentOf(s, t)) = 1
        /\ \E s2 \in StudentIds, t2 \in TermIds :
              <<s2, t2>> # <<s, t>> /\ CurrentOf(s2, t2) # {}

PositionIn(h, id) == CHOOSE k \in DOMAIN h : h[k] = id

\* C4: two overlapping create_risk_score calls for one (student, term) leave
\* exactly one current row for the pair, no committed state shows two, and
\* get_risk_score_history lists both new rows, the later one first.
C4_ConcurrentRecord ==
    /\ \A s \in StudentIds, t \in TermIds : Cardinality(CurrentOf(s, t)) <= 1
    /\ \A i \in racing :
          Cardinality(CurrentOf(risk_scores[i].student_id, risk_scores[i].term_id)) = 1
    /\ \A s \in StudentIds : \A h \in get_risk_score_history(s) :
          \A a, b \in racing :
              (risk_scores[a].student_id = s /\ risk_scores[b].student_id = s /\ a > b)
              => /\ a \in Range(h)
                 /\ b \in Range(h)
                 /\ PositionIn(h, a) < PositionIn(h, b)

\* the scores and the pair of the call a caller is in
ArgsInRange(c) == ScoresInRange(rs_args[c][3], rs_args[c][4])

ArgsCurrent(c) == CurrentOf(rs_args[c][1], rs_args[c][2])

CategoryOf(score) ==
    IF score >= 70 THEN "Critical"
    ELSE IF score >= 50 THEN "High"
    ELSE IF score >= 30 THEN "Medium"
    ELSE "Low"

\* C13: the risk_category of every row written by create_risk_score is the
\* one the thresholds derive from its overall score, whatever the caller
\* passed; 0.82 is stored as Critical.
C13_CategoryDerived ==
    \A i \in DOMAIN risk_scores :
        risk_scores[i].risk_category = CategoryOf(risk_scores[i].overall_risk_score)

\* C14: a create_risk_score call that fails (the INSERT raises: no such
\* student or term, or a storage error) leaves the committed table as it
\* was: the UPDATE of is_current is rolled back with it.
C14_FailedCallChangesNothing ==
    [][\A c \in Callers :
          (rs_pc[c] = "updated" /\ rs_pc'[c] = "raised")
          => /\ risk_scores' = risk_scores
             /\ ArgsCurrent(c)' = ArgsCurrent(c)]_vars

\* witness of C14: a call for a student that does not exist has failed, and
\* so has a call for a pair that had a current row: that row is still current
C14_Witness ==
    \E c, d \in Callers :
        /\ rs_pc[c] = "raised"
        /\ ~ForeignKeysHold(rs_args[c][1], rs_args[c][2])
        /\ rs_pc[d] = "raised"
        /\ ArgsInRange(d)
        /\ Cardinality(ArgsCurrent(d)) = 1

\* C21: get_current_risk_score(s) returns a row of s with is_current = 1
\* whose calculation date is the latest among the current rows of s in all
\* terms, and returns None exactly when s has no current row.
C21_CurrentIsLatest ==
    \A s \in StudentIds : \A r \in get_current_risk_score(s) :
        /\ (r = None) <=> (\A i \in DOMAIN risk_scores :
                              ~(risk_scores[i].student_id = s
                                /\ risk_scores[i].is_current = 1))
        /\ IF r = None THEN TRUE
           ELSE /\ risk_scores[r[1]].student_id = s
                /\ risk_scores[r[1]].is_current = 1
                /\ \A i \in DOMAIN risk_scores :
                      (risk_scores[i].student_id = s /\ risk_scores[i].is_current = 1)
                      => risk_scores[i].score_calculation_date
                            <= risk_scores[r[1]].score_calculation_date

\* witness of C21: a student with a superseded row and current rows in two
\* terms recorded at different times; the later one is returned, and another
\* student has no row and gets None
C21_Witness ==
    \E s \in StudentIds, i, j, k \in DOMAIN risk_scores :
        /\ risk_scores[i].student_id = s /\ risk_scores[i].is_current = 0
        /\ risk_scores[j].student_id = s /\ risk_scores[j].is_current = 1
        /\ risk_scores[k].student_id = s /\ risk_scores[k].is_current = 1
        /\ risk_scores[j].score_calculation_date < risk_scores[k].score_calculation_date
        /\ get_current_risk_score(s) = {Some(k)}
        /\ \E s2 \in StudentIds : get_current_risk_score(s2) = {None}

\* C26: the ledger is append-only.  A create_risk_score(s, t, ...) that
\* succeeds adds exactly one row, also when (s, t) has a current row; in the
\* earlier rows of (s, t) it changes nothing but is_current; every row of
\* another pair stays as it is, is_current included.  Nothing else changes
\* the table.
C26_AppendOnly ==
    [][risk_scores' # risk_scores
       => \E c \in Callers :
             LET s == rs_args[c][1]
                 t == rs_args[c][2]
                 id == Len(risk_scores) + 1
             IN
             /\ rs_pc[c] = "inserted"
             /\ rs_pc'[c] = "idle"
             /\ Len(risk_scores') = id
             /\ risk_scores'[id].student_id = s
             /\ risk_scores'[id].term_id = t
             /\ \A i \in DOMAIN risk_scores :
                   IF risk_scores[i].student_id = s /\ risk_scores[i].term_id = t
                   THEN risk_scores'[i] =
                           [risk_scores[i] EXCEPT !.is_current = risk_scores'[i].is_current]
                   ELSE risk_scores'[i] = risk_scores[i]]_vars

\* witness of C26: a pair recorded again while it had a current row, after
\* another term of the same student was recorded: that term's row is current
C26_Witness ==
    \E i, j, k \in DOMAIN risk_scores :
        /\ i < j /\ j < k
        /\ risk_scores[i].student_id = risk_scores[k].student_id
        /\ risk_scores[i].term_id = risk_scores[k].term_id
        /\ risk_scores[j].student_id = risk_scores[k].student_id
        /\ risk_scores[j].term_id # risk_scores[k].term_id
        /\ risk_scores[i].is_current = 0
        /\ risk_scores[j].is_current = 1
        /\ risk_scores[k].is_current = 1

\* ---- properties of the notifications ---------------------------------------
\* what a notification is apart from the read flag and the read timestamp
Content(row) ==
    [user_id |-> row.user_id, notification_type |-> row.notification_type,
     related_entity_type |-> row.related_entity_type,
     related_entity_id |-> row.related_entity_id]

\* C22: get_unread_notifications(user) returns exactly the notifications
\* created for that user and not marked read: every notification starts
\* unread, a notification marked read stays read and is never returned again,
\* and no step changes another field of a notification or removes one.
C22_UnreadUntilMarked ==
    [][/\ \A n \in DOMAIN notifications :
             /\ n \in DOMAIN notifications'
             /\ Content(notifications'[n]) = Content(notifications[n])
             /\ notifications[n].is_read = 1 => notifications'[n].is_read = 1
             /\ notifications[n].is_read = 1 =>
                   \A u \in UserIds : n \notin Unread(notifications', u)
       /\ \A n \in DOMAIN notifications' :
             n \notin DOMAIN notifications =>
                n \in Unread(notifications', notifications'[n].user_id)
       /\ \A u \in UserIds : \A n \in Unread(notifications', u) :
             /\ notifications'[n].user_id = u
             /\ n \in DOMAIN notifications => n \in get_unread_notifications(u)
       /\ \A u \in UserIds : \A n \in get_unread_notifications(u) :
             n \in Unread(notifications', u)
                \/ (notifications'[n].is_read = 1 /\ notifications'[n].read_at = Some(now))
      ]_vars

\* witness of C22: user 10 has a notification of the lifecycle marked read at
\* an earlier time and an unread one, user 1 has an unread alert; each inbox
\* shows the unread one only
C22_Witness ==
    \E n, m, k \in DOMAIN notifications :
        /\ notifications[n].user_id = 10 /\ notifications[n].is_read = 1
        /\ notifications[n].read_at # Some(now)
        /\ notifications[m].user_id = 10 /\ notifications[m].is_read = 0
        /\ notifications[k].user_id = 1 /\ notifications[k].notification_type = "alert"
        /\ get_unread_notifications(10) = {m}
        /\ k \in get_unread_notifications(1)

\* ---- properties of the intervention lifecycle ---------------------------

\* the state machine of the lifecycle
LegalTransitions ==
    {<<"Pending", "Scheduled">>, <<"Pending", "Cancelled">>,
     <<"Scheduled", "In Progress">>, <<"Scheduled", "Cancelled">>,
     <<"Scheduled", "No-Show">>,
     <<"In Progress", "Completed">>, <<"In Progress", "Cancelled">>}

Returned(r) == r.result \notin {"none", "running"}

\* C2: every change of an intervention's status is a transition of the state
\* machine: nothing leaves Completed, Cancelled or No-Show, nothing skips a state.
C2_ValidStatusWalk ==
    [][\A i \in DOMAIN interventions :
          interventions'[i].status # interventions[i].status
          => <<interventions[i].status, interventions'[i].status>> \in LegalTransitions]_vars

\* C3: an update_status or complete_intervention request that is not legal
\* from the status the row has when it is applied leaves the status as it
\* was and ends with an invalid-transition error.
C3_IllegalTransitionRejected ==
    \A c \in Callers :
        LET r == call[c] IN
        (/\ r.op \in {"update_status", "complete_intervention"}
         /\ r.from # NULL
         /\ <<r.from, r.to>> \notin LegalTransitions)
        => /\ "status" \notin r.changed
           /\ Returned(r) => r.result = "InvalidTransitionError"

StatusOps == {"update_status", "complete_intervention", "approve", "decline"}

\* C5: a status request that lost a race (the row's status changed between
\* the moment the request was made and the moment it is applied) and is no
\* longer legal does not overwrite the winner's status; it ends with an
\* invalid-transition error.
C5_NoLastWriteWins ==
    \A c \in Callers :
        LET r == call[c] IN
        (/\ r.op \in StatusOps
         /\ r.from # NULL
         /\ r.seen # NULL
         /\ r.seen # r.from
         /\ <<r.from, r.to>> \notin LegalTransitions)
        => /\ "status" \notin r.changed
           /\ Returned(r) => r.result = "InvalidTransitionError"

ManagerCreated(i) == Exists(i) /\ interventions[i].title = ManagerTitle

HasScheduledNotification(i) ==
    \E k \in DOMAIN notifications :
        /\ notifications[k].notification_type = "intervention_scheduled"
        /\ notifications[k].related_entity_id = i

HasCreatedAudit(i) ==
    \E k \in DOMAIN audit_logs :
        audit_logs[k].action = "INTERVENTION_CREATED" /\ audit_logs[k].entity_id = i

\* C6: in every state, a row made by InterventionManager.create_intervention
\* exists exactly when its INTERVENTION_CREATED audit entry exists and, for a
\* student with a user account, exactly when its intervention_scheduled
\* notification exists.
C6_CreateIsAtomic ==
    \A i \in InterventionIds :
        /\ ManagerCreated(i) <=> HasCreatedAudit(i)
        /\ (ManagerCreated(i) /\ StudentUser(interventions[i].student_id) # 0)
              <=> HasScheduledNotification(i)

ValidRatings == {Some(k) : k \in 1..5}

CompletionColumns == {"status", "completed_date", "outcome_assessment", "success_rating"}

\* C7: a completion without an outcome assessment or without a rating in 1..5
\* (complete_intervention with such arguments, update_status to Completed)
\* changes none of status, completed_date, outcome_assessment, success_rating
\* and ends with a validation error.
C7_CompletionNeedsOutcome ==
    \A c \in Callers :
        LET r == call[c] IN
        (/\ r.from # NULL
         /\ \/ r.op = "update_status" /\ r.to = "Completed"
            \/ /\ r.op = "complete_intervention"
               /\ (r.outcome = NULL \/ r.rating \notin ValidRatings))
        => /\ r.changed \cap CompletionColumns = {}
           /\ Returned(r) => r.result = "ValidationError"

\* C8: every successful call that creates an intervention or changes the
\* status of one appends exactly one audit_logs entry for that intervention.
C8_OneAuditEntryPerCall ==
    \A c \in Callers :
        LET r == call[c] IN
        (/\ r.result = "ok"
         /\ \/ r.op = "create_intervention"
            \/ r.op \in StatusOps /\ r.from # NULL)
        => r.audits = 1

\* C9: schedule_follow_up on an intervention that is not Completed sets
\* neither follow_up_required nor follow_up_date and ends with an
\* invalid-transition error.
C9_FollowUpOnlyWhenCompleted ==
    \A c \in Callers :
        LET r == call[c] IN
        (/\ r.op = "schedule_follow_up"
         /\ r.from \notin {NULL, "Completed"})
        => /\ r.changed \cap {"follow_up_required", "follow_up_date"} = {}
           /\ Returned(r) => r.result = "InvalidTransitionError"

\* C10: the notes of an intervention hold every note text recorded on it so
\* far: the creation notes and the notes of every call applied to it.
C10_NotesOnlyGrow ==
    \A i \in DOMAIN interventions : recorded[i] \subseteq Range(interventions[i].notes)

MissingIdOps == {"update_status", "complete_intervention", "schedule_follow_up"}

\* C23: update_status, complete_intervention and schedule_follow_up applied
\* to an intervention_id that has no row end with a not-found error and
\* persist nothing: no audit entry, no notification, no row changed; they do
\* not report success.
C23_MissingIdNotFound ==
    \A c \in Callers :
        LET r == call[c] IN
        (r.op \in MissingIdOps /\ Returned(r) /\ r.from = NULL)
        => /\ r.result = "NotFoundError"
           /\ r.audits = 0
           /\ r.changed = {}

\* ---- properties of the creation paths --------------------------------

\* C11: a row of interventions is created with status Pending by the student
\* portal's appointment request and with status Scheduled by every other
\* creation path (create_intervention, create_from_template,
\* create_bulk_interventions, the dashboard's Create Intervention button).
C11_InitialStatus ==
    [][Len(interventions') > Len(interventions)
       => LET id == Len(interventions') IN
          interventions'[id].status =
             IF \E c \in Callers : /\ call'[c].op = "request_appointment"
                                   /\ call'[c].id = id
             THEN "Pending" ELSE "Scheduled"]_vars

\* the notifications that reference intervention i
NotificationsFor(i) ==
    {k \in DOMAIN notifications :
        /\ notifications[k].related_entity_type = "interventions"
        /\ notifications[k].related_entity_id = i}

ScheduledNotificationsFor(i) ==
    {k \in NotificationsFor(i) :
        notifications[k].notification_type = "intervention_scheduled"}

\* the interventions a returned call has created
CreatedBy(r) ==
    IF r.op \in {"create_intervention", "create_from_template"} THEN {r.id}
    ELSE IF r.op = "create_bulk_interventions" THEN Range(r.ids)
    ELSE {}

\* C18: after a successful create_intervention for a student with a user
\* account there is exactly one intervention_scheduled notification that
\* references the new intervention, and it is addressed to that student's
\* user_id; for a student without a user account there is none.
C18_OneNotificationPerCreate ==
    \A c \in Callers :
        call[c].result = "ok" =>
            \A i \in CreatedBy(call[c]) :
                LET user == StudentUser(interventions[i].student_id) IN
                IF user # 0
                THEN /\ Cardinality(ScheduledNotificationsFor(i)) = 1
                     /\ \A k \in ScheduledNotificationsFor(i) :
                           notifications[k].user_id = user
                ELSE ScheduledNotificationsFor(i) = {}

\* witness of C18: two successful creations, one for the student with a user
\* account (notified once) and one for the student without (not notified)
C18_Witness ==
    \E c, d \in Callers :
        /\ call[c].result = "ok" /\ call[d].result = "ok"
        /\ \E i \in CreatedBy(call[c]), j \in CreatedBy(call[d]) :
              /\ StudentUser(interventions[i].student_id) # 0
              /\ StudentUser(interventions[j].student_id) = 0
              /\ Cardinality(ScheduledNotificationsFor(i)) = 1
              /\ ScheduledNotificationsFor(j) = {}

\* the interventions a create_bulk_interventions call has inserted
InsertedBy(r) == (Range(r.ids) \cup {r.id}) \ {0}

AuditsFor(i) == {k \in DOMAIN audit_logs : audit_logs[k].entity_id = i}

\* C28: create_bulk_interventions is all-or-nothing: when it fails for a
\* student id of the list, no intervention, notification or audit entry
\* created earlier in the call remains.
C28_BulkAllOrNothing ==
    \A c \in Callers :
        LET r == call[c] IN
        (r.op = "create_bulk_interventions" /\ Returned(r) /\ r.result # "ok")
        => \A i \in InsertedBy(r) :
              /\ ~Exists(i)
              /\ NotificationsFor(i) = {}
              /\ AuditsFor(i) = {}

\* C19: an intervention created with an intervention type template has the
\* template's default priority and description where the caller gave none,
\* and the caller's values where it gave them.
C19_TemplateDefaults ==
    \A c \in Callers :
        LET r == call[c] IN
        (/\ r.op \in {"create_intervention", "create_from_template",
                      "create_bulk_interventions"}
         /\ r.type_id # None
         /\ Exists(r.id))
        => LET template == intervention_types[r.type_id[1]]
               row == interventions[r.id]
           IN /\ row.priority = Given(r.priority, template.default_priority)
              /\ row.description = Given(r.description, template.description)

\* ---- properties of the advisor's desk ----------------------------------

\* C15: an intervention whose status is Completed has its completed_date set;
\* create_intervention, update_status(id, 'In Progress'),
\* complete_intervention(id, outcome, rating 4) ends so.
C15_CompletedHasDate ==
    \A i \in DOMAIN interventions :
        interventions[i].status = "Completed" => interventions[i].completed_date # None

\* witness of C15: complete_intervention with rating 4 has returned for an
\* intervention it found In Progress; the row is Completed with its date
C15_Witness ==
    \E c \in Callers :
        LET r == call[c] IN
        /\ r.op = "complete_intervention"
        /\ r.result = "ok"
        /\ r.from = "In Progress"
        /\ r.rating = Some(4)
        /\ interventions[r.id].title = ManagerTitle
        /\ interventions[r.id].status = "Completed"
        /\ interventions[r.id].completed_date # None

\* the current date-time is past the scheduled date-time of the row
PastDue(row) ==
    IF row.scheduled_date = None THEN FALSE
    ELSE TextLess(row.scheduled_date[1], strftime(now))

\* C16: get_overdue_interventions(advisor_id) returns exactly the
\* interventions of that advisor that are Scheduled and whose scheduled
\* date-time is strictly earlier than the current date-time.
C16_OverdueExactly ==
    \A a \in AdvisorIds :
        get_overdue_interventions(Some(a)) =
            {i \in DOMAIN interventions :
                /\ interventions[i].advisor_id = a
                /\ interventions[i].status = "Scheduled"
                /\ PastDue(interventions[i])}

\* the steps that write a row of interventions: the UPDATE of update_status,
\* complete_intervention, schedule_follow_up, the dashboard's Approve / Decline
WriteSteps == {"us_update", "co_update", "fu_update", "dash_update"}

\* C17: no row of interventions changes except by the UPDATE of a call made
\* on that row: no query and no passage of time changes one, so an overdue
\* Scheduled intervention stays Scheduled until such a call is made on it.
C17_OnlyCallsChangeRows ==
    [][\A i \in DOMAIN interventions :
          interventions'[i] # interventions[i]
          => \E c \in Callers : /\ pc[c] \in WriteSteps
                                /\ pc'[c] # pc[c]
                                /\ call[c].id = i]_vars

\* witness of C17: time has passed, get_overdue_interventions has returned an
\* intervention, and it is still Scheduled and still overdue
C17_Witness ==
    \E c \in Callers :
        /\ call[c].op = "get_overdue_interventions"
        /\ now > 0
        /\ \E i \in call[c].rows :
              /\ interventions[i].status = "Scheduled"
              /\ i \in get_overdue_interventions(Some(1))

\* ---- properties of the email queue -------------------------------------

\* C20: for an email whose sending never succeeds, the send attempts made
\* over all runs of process_email_queue stay within the retry bound, and a
\* row whose retries are used up is marked Failed (it does not stay Pending).
C20_BoundedRetriesThenFailed ==
    /\ \A m \in NeverDelivered : attempts[m] <= RetryLimit
    /\ \A i \in DOMAIN email_queue :
          email_queue[i].retry_count >= RetryLimit => email_queue[i].status = "Failed"

\* ---- properties of the follow-ups -------------------------------------------
\* the follow-up date lies within the look-ahead window: d <= today + 7 days
InWindow(row) ==
    IF row.follow_up_date = None THEN FALSE
    ELSE ~TextLess(sql_date_plus(now, 7), <<row.follow_up_date[1]>>)

\* C27: every follow-up recorded by a schedule_follow_up(i, d) that succeeded
\* is reported by get_follow_ups_due for the advisor of the intervention in
\* every state in which d lies within the look-ahead window, whatever status
\* the intervention had when the follow-up was scheduled.
C27_FollowUpReported ==
    \A i \in DOMAIN interventions :
        (interventions[i].follow_up_required = 1 /\ InWindow(interventions[i]))
        => i \in get_follow_ups_due(Some(interventions[i].advisor_id))

\* ---- properties of the pending list -------------------------------------------
\* how often intervention i is in the result of get_pending_interventions
TimesPending(advisor, i) ==
    Cardinality({row \in get_pending_interventions(advisor) : row[1] = i})

\* C29: get_pending_interventions(advisor_id) returns each intervention of
\* the advisor whose status is Scheduled or In Progress exactly once, however
\* many risk_scores rows the student has, and no intervention in another
\* status.
C29_PendingOnce ==
    \A a \in AdvisorIds : \A i \in DOMAIN interventions :
        TimesPending(Some(a), i) =
            IF /\ interventions[i].advisor_id = a
               /\ interventions[i].status \in {"Scheduled", "In Progress"}
            THEN 1 ELSE 0

\* C24: when a call of process_email_queue has ended, normally or with an
\* exception, every email it sent successfully is recorded with status Sent,
\* so no email is sent a second time by a later call.
C24_SentStaysSent ==
    \A i \in DOMAIN email_queue :
        /\ deliveries[i].sent <= 1
        /\ (mq_pc = "idle" /\ deliveries[i].sent >= 1) => email_queue[i].status = "Sent"

\* C25: with process_email_queue invoked again and again, every row of
\* email_queue in status Pending is eventually attempted at least once.
C25_EveryPendingAttempted ==
    ([]<>(mq_pc = "idle"))
    => \A i \in 1..MaxQueue :
          []((i \in DOMAIN email_queue /\ email_queue[i].status = "Pending")
             => <>(deliveries[i].attempted))

\* ---- properties of the warning system test ------------------------------------
ProfileNamed(name) == CHOOSE k \in DOMAIN test_profiles : test_profiles[k].name = name

\* C30: for every built-in profile generate_warnings_for_profile produces a
\* warning of each type listed in the profile's expected_warnings, and no
\* warning at all for the profile whose expected_warnings is empty.
C30_ExpectedWarnings ==
    \A n \in DOMAIN test_results :
        LET expected == test_profiles[ProfileNamed(test_results[n].profile_name)].expected_warnings
        IN
        /\ Range(expected) \subseteq Range(test_results[n].warning_types)
        /\ expected = <<>> => test_results[n].warning_types = <<>>

====
